---- MODULE Spec2Model ----
(***************************************************************************)
(* Technician invite / redemption subsystem of jobticketinvoice            *)
(* (backend/routes/tech_invites.py, backend/models/tech_invite.py,         *)
(* backend/models/user.py, backend/core/invite_tokens.py), the job ticket  *)
(* handlers by id of backend/routes/job_tickets.py with the ticket numbers *)
(* of backend/utils/ticket_number.py, and the field encryption of          *)
(* backend/core/encryption.py with the encrypted columns of                *)
(* backend/models/invoice.py and backend/models/job_ticket.py.             *)
(*                                                                         *)
(* Each HTTP request runs in its own SQLAlchemy session (database.get_db). *)
(* A handler first reads and checks, then flushes and commits; requests    *)
(* served by different workers interleave between the two phases.  A       *)
(* session keeps the row it loaded (identity map) and, at commit, flushes  *)
(* an UPDATE by primary key of only the columns it changed.                 *)
(*                                                                         *)
(* Two requests are in flight at most.  The request of session "s1" can be *)
(* overtaken between its check and its commit by the clock and by any      *)
(* number of requests of session "s2"; a request of "s2" can be overtaken  *)
(* by the clock only.  Reads commute, so this covers every interleaving of *)
(* two requests whose checks read the same clock value.                     *)
(*                                                                         *)
(* Invites are issued by the managers of the companies in Inviters; the    *)
(* managers of every company list and cancel.  The handlers are async      *)
(* functions with blocking database calls, so two requests overlap only    *)
(* when they are served by different worker processes.                      *)
(*                                                                         *)
(* Time is counted in units of 48 hours.                                    *)
(***************************************************************************)
EXTENDS Integers, Sequences, FiniteSets, TLC

\* ---- bounds of the model ----
MaxInvites == 3      \* rows of tech_invites
MaxTime == 2         \* last value of the clock
MaxEmails == 1      \* tokens issued by send_tech_invite_email
MaxTickets == 2     \* rows of job_tickets

\* ---- program constants ----
TTL == 1            \* timedelta(hours=48)

Companies == {"A", "B"}
Inviters == {"A"}   \* companies whose managers issue invites
Emails == {"e1"}
Names == {"n1"}     \* tech_name of an invite request
Roles == {"manager", "admin"}   \* require_role([UserRole.MANAGER, UserRole.ADMIN])
Sessions == {"s1", "s2"}
StatusFilters == {"", "pending"}

NULL == -1          \* SQL NULL of a DateTime column
None == "None"      \* payload.get(k) of a claim the payload lacks
NoneId == 0         \* the same for invite_id and sub; no row has this id

secret_key == "secret_key"                  \* settings.auth.secret_key
InviteIssuer == "jobticket-invite-system"
B64 == 0..63        \* the base64url alphabet, by value

NoClaims == [invite_id |-> 0, company_id |-> "", tech_name |-> "", email |-> "",
             role |-> "", exp |-> 0, iss |-> "", type |-> "",
             sub |-> 0, is_active |-> ""]
NoSig == [head |-> 0, tail |-> 0]
NoTok == [invite_id |-> 0, company_id |-> "", tech_name |-> "", email |-> "",
          role |-> "", exp |-> 0, iss |-> "", type |-> "",
          sub |-> 0, is_active |-> "", sig |-> NoSig]

VARIABLES
    now,        \* datetime.utcnow()
    invites,    \* table tech_invites: row i has invite_id i
    users,      \* table users: row i has id i
    tokens,     \* invite tokens handed out (response body or email)
    req,        \* per session: the request in flight between check and commit
    cancelled,  \* invite ids for which a cancel has committed
    resp,       \* the response just returned (NoResp in every other state)
    job_tickets,\* table job_tickets: id -> row
    invoices    \* table invoices: row i has id i

vars == <<now, invites, users, tokens, req, cancelled, resp, job_tickets, invoices>>

Idle == [op |-> "idle", co |-> "", email |-> "", name |-> "", inv |-> 0,
         tok |-> NoTok, tchk |-> NULL, marked |-> {}, after |-> {},
         had |-> FALSE]

NoResp == [op |-> "none", res |-> 0, msg |-> "", co |-> "", email |-> "",
           inv |-> 0, tok |-> NoTok, tchk |-> NULL, snap |-> "",
           stage |-> "", after |-> {}, had |-> FALSE, role |-> "", rows |-> {}]

InviteIds == 1..Len(invites)

\* ------------------------------------------------------------------------
\* models/tech_invite.py
\* ------------------------------------------------------------------------
NewInvite(e, co, t) ==
    [email |-> e, company_id |-> co, status |-> "pending",
     expires_at |-> t + TTL, used_at |-> NULL]

is_expired_at(inv, t) == t >= inv.expires_at
is_expired(inv, t) == t > inv.expires_at

is_valid_any_status(inv, t) == ~is_expired(inv, t)
is_valid_any_time(inv, t) == inv.status = "pending"
is_valid(inv, t) == inv.status = "pending" /\ ~is_expired(inv, t)

mark_as_used(inv, t) == [inv EXCEPT !.status = "accepted", !.used_at = t]

mark_as_expired(inv) == [inv EXCEPT !.status = "expired"]

mark_as_cancelled_lost(inv) == inv
mark_as_cancelled(inv) == [inv EXCEPT !.status = "cancelled"]

\* ------------------------------------------------------------------------
\* core/invite_tokens.py
\* ------------------------------------------------------------------------
\* A token is the JWT header.payload.signature: the claims of the payload
\* and the signature.  The signature is the HMAC-SHA256 of the signing input
\* in base64url: 43 characters for 32 bytes, the last character carrying
\* the last four bits of the HMAC and two padding bits.  sig.head is the
\* value of the first 42 characters, sig.tail the last character.
\* The claims are those of the two kinds of token the application signs
\* with settings.auth.secret_key: invite tokens carry no sub and no
\* is_active, access tokens no invite_id, tech_name, iss and type.
Payload(tok) ==
    [invite_id |-> tok.invite_id, company_id |-> tok.company_id,
     tech_name |-> tok.tech_name, email |-> tok.email, role |-> tok.role,
     exp |-> tok.exp, iss |-> tok.iss, type |-> tok.type,
     sub |-> tok.sub, is_active |-> tok.is_active]

\* the values of the model as digits
Code(v) ==
    CASE v \in {"A", "n1", "e1", "tech", "tech_invite", InviteIssuer, secret_key,
                "True"} -> 1
      [] v \in {"B", "manager", "access", "other"} -> 2
      [] OTHER -> 0

\* HMAC-SHA256(key, signing input) as a number: different keys or payloads
\* of the model give different numbers
hmac(key, body) ==
    Code(key) + 3 * (Code(body.type) + 3 * (Code(body.iss) + 3 * (Code(body.role)
      + 3 * (Code(body.email) + 3 * (Code(body.tech_name)
      + 3 * (Code(body.company_id)
      + 3 * (Code(body.is_active)
      + 3 * (body.invite_id + (MaxInvites + 1) * (body.sub
      + (MaxInvites + 1) * body.exp)))))))))

\* base64url of the HMAC: the last character holds the last four bits
\* followed by two zero bits
b64_encode(h) == [head |-> h \div 16, tail |-> 4 * (h % 16)]

\* base64.urlsafe_b64decode: the two low bits of the last character are
\* discarded
b64_decode(sig) == 16 * sig.head + (sig.tail \div 4)

\* jwt.encode(payload, key, algorithm="HS256")
jwt_encode(body, key) ==
    [invite_id |-> body.invite_id, company_id |-> body.company_id,
     tech_name |-> body.tech_name, email |-> body.email, role |-> body.role,
     exp |-> body.exp, iss |-> body.iss, type |-> body.type,
     sub |-> body.sub, is_active |-> body.is_active,
     sig |-> b64_encode(hmac(key, body))]

generate_invite_token_technician(id, co, n, e, t) ==
    jwt_encode([invite_id |-> id, company_id |-> co, tech_name |-> n,
                email |-> e, role |-> "technician", exp |-> t + TTL,
                iss |-> InviteIssuer, type |-> "tech_invite",
                sub |-> NoneId, is_active |-> None], secret_key)

generate_invite_token(id, co, n, e, t) ==
    jwt_encode([invite_id |-> id, company_id |-> co, tech_name |-> n,
                email |-> e, role |-> "tech", exp |-> t + TTL,
                iss |-> InviteIssuer, type |-> "tech_invite",
                sub |-> NoneId, is_active |-> None], secret_key)

\* jws.verify: the decoded signature equals the HMAC of the signing input
\* under the key
signature_ok_unverified(tok, key) == TRUE
signature_ok(tok, key) == b64_decode(tok.sig) = hmac(key, Payload(tok))

token_expired_at(tok, t) == tok.exp <= t
\* jwt.decode(..., verify_exp) raises ExpiredSignatureError when exp < now
token_expired(tok, t) == tok.exp < t

\* the same without the checks of type, role and iss
validate_invite_token_signature_only(tok, t) ==
    IF ~signature_ok(tok, secret_key)
    THEN [status |-> 401, detail |-> "Invalid or tampered invite token",
          payload |-> NoClaims]
    ELSE IF token_expired(tok, t)
    THEN [status |-> 401, detail |-> "Invite token has expired",
          payload |-> NoClaims]
    ELSE [status |-> 200, detail |-> "", payload |-> Payload(tok)]

\* InviteTokenService.validate_invite_token: the HTTPException it raises,
\* or 200 when it returns the payload.  The option "require" is not one
\* python-jose knows (it reads require_exp, require_iat, ...), so no claim
\* is required by jwt.decode; no issuer is passed to jwt.decode, so iss is
\* checked by the service only.  The three HTTPException(401) raised inside
\* the try block for type, role and issuer are caught by its own
\* "except Exception" clause and replaced by HTTPException(500).
validate_invite_token(tok, t) ==
    IF ~signature_ok(tok, secret_key)
    THEN [status |-> 401, detail |-> "Invalid or tampered invite token",
          payload |-> NoClaims]
    ELSE IF token_expired(tok, t)
    THEN [status |-> 401, detail |-> "Invite token has expired",
          payload |-> NoClaims]
    ELSE IF tok.type # "tech_invite" \/ tok.role # "tech" \/ tok.iss # InviteIssuer
    THEN [status |-> 500, detail |-> "Token validation failed",
          payload |-> NoClaims]
    ELSE [status |-> 200, detail |-> "", payload |-> Payload(tok)]

\* ------------------------------------------------------------------------
\* core/security.py, utils/jwt.py: session access tokens
\* ------------------------------------------------------------------------
\* settings.auth.access_token_expire_minutes (30): less than one unit of time
access_token_expire == 0

\* create_access_token(data), called at time t
create_access_token(data, t) ==
    jwt_encode([data EXCEPT !.exp = t + access_token_expire], secret_key)

\* create_user_token(user) for the user with the given id, called at time t
create_user_token(id, t) ==
    create_access_token(
        [invite_id |-> NoneId, company_id |-> users[id].company,
         tech_name |-> None, email |-> users[id].email, role |-> users[id].role,
         exp |-> 0, iss |-> None, type |-> None,
         sub |-> id, is_active |-> users[id].is_active], t)

\* core.security.get_current_user: 200 and the id of the user it returns, or
\* the 401 it raises.  A token without is_active counts as active
\* (payload.get("is_active", True)).
get_current_user(tok, t) ==
    LET no == [status |-> 401, user |-> 0]
    IN  IF ~signature_ok(tok, secret_key) \/ token_expired(tok, t) THEN no
        ELSE IF tok.sub = NoneId THEN no
        ELSE IF tok.sub \notin 1..Len(users) THEN no
        ELSE IF users[tok.sub].is_active # "True" THEN no
        ELSE IF \/ users[tok.sub].company # tok.company_id
                \/ users[tok.sub].role # tok.role
                \/ users[tok.sub].is_active #
                      (IF tok.is_active = None THEN "True" ELSE tok.is_active)
        THEN no
        ELSE [status |-> 200, user |-> tok.sub]

\* utils.jwt.verify_access_token: 200 and token_data["user_id"], or the 401
\* it raises.  (It reads the key as settings.SECRET_KEY; where the settings
\* object has no such attribute the call raises before it decodes, and
\* accepts nothing.)
verify_access_token(tok, t) ==
    IF ~signature_ok(tok, secret_key) \/ token_expired(tok, t)
    THEN [status |-> 401, user_id |-> 0]
    ELSE IF tok.sub = NoneId THEN [status |-> 401, user_id |-> 0]
    ELSE [status |-> 200, user_id |-> tok.sub]

\* the access tokens issued so far: at a redemption or at a login of a user
AccessTokens == {create_user_token(id, t) : id \in 1..Len(users), t \in 0..now}

\* ------------------------------------------------------------------------
\* tokens a client can present besides the ones it was handed
\* ------------------------------------------------------------------------
\* payloads that differ from p in one claim, or lack one claim
AlteredClaims(p) ==
    {[p EXCEPT !.invite_id = NoneId],
     [p EXCEPT !.company_id = "B"], [p EXCEPT !.company_id = None],
     [p EXCEPT !.tech_name = None],
     [p EXCEPT !.email = None],
     [p EXCEPT !.role = "manager"], [p EXCEPT !.role = None],
     [p EXCEPT !.type = "access"], [p EXCEPT !.type = None],
     [p EXCEPT !.iss = "other"], [p EXCEPT !.iss = None]} \ {p}

\* tokens signed with the secret key by another issuer of the deployment
Resigned(b) == {jwt_encode(q, secret_key) : q \in AlteredClaims(Payload(b))}

\* the token with its last character replaced
LastCharChanged(b) == {[b EXCEPT !.sig.tail = c] : c \in B64 \ {b.sig.tail}}

\* the token with its payload replaced and its signature kept
PayloadChanged(b) ==
    {[jwt_encode(q, secret_key) EXCEPT !.sig = b.sig] : q \in AlteredClaims(Payload(b))}

\* the token signed with a key that is not the secret key
OtherKey(b) == {jwt_encode(Payload(b), "other_key")}

Tampered(b) == LastCharChanged(b) \cup PayloadChanged(b) \cup OtherKey(b)

Presentable ==
    tokens \cup UNION {Resigned(b) \cup Tampered(b) : b \in tokens} \cup AccessTokens

\* ------------------------------------------------------------------------
\* models/user.py
\* ------------------------------------------------------------------------
NewTechUser(e, co, id) ==
    [email |-> e, company |-> co, role |-> "tech", is_active |-> "True",
     force_password_reset |-> FALSE, via |-> id]

\* email = Column(String, ..., nullable=False): an INSERT with email NULL
\* raises IntegrityError
not_null_violation(e) == e = None

\* email = Column(String, unique=True, ...): an INSERT of a second row with
\* the same email raises IntegrityError
unique_email_unenforced(e) == FALSE
unique_email_violation(e) == \E u \in 1..Len(users) : users[u].email = e

\* ------------------------------------------------------------------------
\* queries
\* ------------------------------------------------------------------------
UserExists(e) == \E u \in 1..Len(users) : users[u].email = e

PendingFor(e, co) ==
    {i \in InviteIds : /\ invites[i].email = e
                       /\ invites[i].company_id = co
                       /\ invites[i].status = "pending"}

Lookup_any_company(id, co) == {i \in InviteIds : i = id}
Lookup(id, co) == {i \in InviteIds : i = id /\ invites[i].company_id = co}

status_msg(inv, t) == IF is_expired(inv, t) THEN "expired" ELSE inv.status

UsersVia(id) == {u \in 1..Len(users) : users[u].via = id}

\* tokens whose expiry is not the one computed when the record was created
EmailTokens == {t \in tokens : t.exp # invites[t.invite_id].expires_at}

InFlight(o) == {s \in Sessions : req[s].op = o}

\* s may take a step: no session that is served without being overtaken is
\* in flight
MayStep(s) == \A o \in Sessions : (o # s /\ o = "s2") => req[o].op = "idle"

Begin(s, r) == req' = [req EXCEPT ![s] = r]

End(s) == req' = [req EXCEPT ![s] = Idle]

Respond(r) == resp' = r

\* ------------------------------------------------------------------------
\* create_tech_invite (POST /tech-invites/)
\* ------------------------------------------------------------------------
\* the two existence checks; existing_invite is .first() of a query with no
\* ORDER BY: any matching row
CreateCheck(s, co, e, n) ==
    /\ req[s].op = "idle"
    /\ MayStep(s)
    /\ Len(invites) + Cardinality(InFlight("create")) < MaxInvites
    /\ LET m == PendingFor(e, co)
           \* a user, or a pending invite not past its expiry, exists now
           h == UserExists(e) \/ \E j \in m : now <= invites[j].expires_at
           r == [NoResp EXCEPT !.op = "create", !.co = co, !.email = e,
                               !.tchk = now, !.stage = "check", !.had = h]
       IN  IF UserExists(e)
           THEN /\ Respond([r EXCEPT !.res = 409, !.msg = "user exists"])
                /\ UNCHANGED req
           ELSE \/ /\ m = {}
                   /\ Begin(s, [Idle EXCEPT !.op = "create", !.co = co, !.email = e,
                                                !.name = n, !.had = h])
                   /\ Respond(NoResp)
                \/ \E i \in m :
                     IF is_valid(invites[i], now)
                     THEN /\ Respond([r EXCEPT !.res = 409, !.inv = i,
                                               !.msg = "pending invite exists"])
                          /\ UNCHANGED req
                     ELSE /\ Begin(s, [Idle EXCEPT !.op = "create", !.co = co,
                                                   !.email = e, !.name = n,
                                                   !.had = h])
                          /\ Respond(NoResp)
    /\ UNCHANGED <<now, invites, users, tokens, cancelled, job_tickets, invoices>>

\* db.add(tech_invite); db.commit(); generate_invite_token(...)
CreateCommit(s) ==
    /\ req[s].op = "create"
    /\ MayStep(s)
    /\ LET id == Len(invites) + 1
           tok == generate_invite_token(id, req[s].co, req[s].name,
                                        req[s].email, now)
       IN  /\ invites' = Append(invites, NewInvite(req[s].email, req[s].co, now))
           /\ tokens' = tokens \cup {tok}
           /\ Respond([NoResp EXCEPT !.op = "create", !.res = 201, !.inv = id,
                                     !.co = req[s].co, !.email = req[s].email,
                                     !.tok = tok, !.tchk = now, !.stage = "commit",
                                     !.had = req[s].had])
    /\ End(s)
    /\ UNCHANGED <<now, users, cancelled, job_tickets, invoices>>

\* ------------------------------------------------------------------------
\* validate_invite_token (GET /tech-invites/validate)
\* ------------------------------------------------------------------------
\* a validate endpoint that does not look at is_valid
ValidateInvite_any_invite(s, tok) ==
    /\ req[s].op = "idle"
    /\ MayStep(s)
    /\ LET r == [NoResp EXCEPT !.op = "validate", !.tok = tok, !.tchk = now,
                               !.inv = tok.invite_id, !.co = tok.company_id,
                               !.email = tok.email]
       IN  \E v \in {validate_invite_token(tok, now)} :
           IF v.status # 200
           THEN Respond([r EXCEPT !.res = v.status, !.msg = v.detail,
                                  !.stage = "token"])
           ELSE IF Lookup(v.payload.invite_id, v.payload.company_id) = {}
           THEN Respond([r EXCEPT !.res = 404, !.msg = "Invite not found",
                                  !.stage = "lookup"])
           ELSE Respond([r EXCEPT !.res = 200, !.stage = "valid",
                                  !.snap = invites[tok.invite_id].status])
    /\ UNCHANGED <<now, invites, users, tokens, req, cancelled, job_tickets, invoices>>

ValidateInvite(s, tok) ==
    /\ req[s].op = "idle"
    /\ MayStep(s)
    /\ LET r == [NoResp EXCEPT !.op = "validate", !.tok = tok, !.tchk = now,
                               !.inv = tok.invite_id, !.co = tok.company_id,
                               !.email = tok.email]
       IN  \E v \in {validate_invite_token(tok, now)} :
           IF v.status # 200
           THEN Respond([r EXCEPT !.res = v.status, !.msg = v.detail,
                                  !.stage = "token"])
           ELSE IF Lookup(v.payload.invite_id, v.payload.company_id) = {}
           THEN Respond([r EXCEPT !.res = 404, !.msg = "Invite not found",
                                  !.stage = "lookup"])
           ELSE LET inv == invites[tok.invite_id]
                IN  IF ~is_valid(inv, now)
                    THEN Respond([r EXCEPT !.res = 410, !.snap = inv.status,
                                           !.msg = status_msg(inv, now),
                                           !.stage = "valid"])
                    ELSE Respond([r EXCEPT !.res = 200, !.snap = inv.status,
                                           !.stage = "valid"])
    /\ UNCHANGED <<now, invites, users, tokens, req, cancelled, job_tickets, invoices>>

\* ------------------------------------------------------------------------
\* redeem_invite_token (POST /tech-invites/redeem)
\* ------------------------------------------------------------------------
\* the checks with the existing-user check moved before the validity check
redeem_checks_user_first(tok, t) ==
    LET v == validate_invite_token(tok, t)
        o == [res |-> 0, msg |-> "", stage |-> "pass", snap |-> ""]
    IN  IF v.status # 200
        THEN [o EXCEPT !.res = v.status, !.msg = v.detail, !.stage = "token"]
        ELSE IF Lookup(v.payload.invite_id, v.payload.company_id) = {}
        THEN [o EXCEPT !.res = 404, !.msg = "Invite not found", !.stage = "lookup"]
        ELSE LET inv == invites[v.payload.invite_id]
             IN  IF UserExists(v.payload.email)
                 THEN [o EXCEPT !.res = 409, !.msg = "User account already exists",
                                !.stage = "user", !.snap = inv.status]
                 ELSE IF ~is_valid(inv, t)
                 THEN [o EXCEPT !.res = 410, !.msg = status_msg(inv, t),
                                !.stage = "valid", !.snap = inv.status]
                 ELSE IF v.payload.company_id \notin Companies
                 THEN [o EXCEPT !.res = 404, !.msg = "Company not found",
                                !.stage = "company", !.snap = inv.status]
                 ELSE [o EXCEPT !.snap = inv.status]

\* the checks of redeem_invite_token in the order of the code: the error
\* response of the first that fails, or stage "pass"
redeem_checks(tok, t) ==
    LET v == validate_invite_token(tok, t)
        o == [res |-> 0, msg |-> "", stage |-> "pass", snap |-> ""]
    IN  IF v.status # 200
        THEN [o EXCEPT !.res = v.status, !.msg = v.detail, !.stage = "token"]
        ELSE IF Lookup(v.payload.invite_id, v.payload.company_id) = {}
        THEN [o EXCEPT !.res = 404, !.msg = "Invite not found", !.stage = "lookup"]
        ELSE LET inv == invites[v.payload.invite_id]
             IN  IF ~is_valid(inv, t)
                 THEN [o EXCEPT !.res = 410, !.msg = status_msg(inv, t),
                                !.stage = "valid", !.snap = inv.status]
                 ELSE IF UserExists(v.payload.email)
                 THEN [o EXCEPT !.res = 409, !.msg = "User account already exists",
                                !.stage = "user", !.snap = inv.status]
                 ELSE IF v.payload.company_id \notin Companies
                 THEN [o EXCEPT !.res = 404, !.msg = "Company not found",
                                !.stage = "company", !.snap = inv.status]
                 ELSE [o EXCEPT !.snap = inv.status]

\* a redeem that, like list_tech_invites, writes the lazy expiry when it
\* answers 410
RedeemCheck_lazy_expiry(s, tok) ==
    /\ req[s].op = "idle"
    /\ MayStep(s)
    /\ validate_invite_token(tok, now).status = 200
    /\ Lookup(tok.invite_id, tok.company_id) # {}
    /\ ~is_valid(invites[tok.invite_id], now)
    /\ invites' = [invites EXCEPT ![tok.invite_id] = mark_as_expired(@)]
    /\ Respond([NoResp EXCEPT !.op = "redeem", !.tok = tok, !.tchk = now,
                              !.inv = tok.invite_id, !.co = tok.company_id,
                              !.email = tok.email, !.res = 410,
                              !.snap = invites[tok.invite_id].status,
                              !.msg = status_msg(invites[tok.invite_id], now),
                              !.stage = "valid"])
    /\ UNCHANGED <<now, users, tokens, req, cancelled, job_tickets, invoices>>

RedeemCheck(s, tok) ==
    /\ req[s].op = "idle"
    /\ MayStep(s)
    /\ LET aft == (IF UsersVia(tok.invite_id) # {} THEN {"redeemed"} ELSE {})
                  \cup (IF tok.invite_id \in cancelled THEN {"cancelled"} ELSE {})
           r == [NoResp EXCEPT !.op = "redeem", !.tok = tok, !.tchk = now,
                               !.inv = tok.invite_id, !.co = tok.company_id,
                               !.email = tok.email, !.after = aft]
       IN  \E o \in {redeem_checks(tok, now)} :
           IF o.stage # "pass"
           THEN /\ Respond([r EXCEPT !.res = o.res, !.msg = o.msg,
                                     !.stage = o.stage, !.snap = o.snap])
                /\ UNCHANGED req
           ELSE \* the payload returned by validate_invite_token is the
                \* token's
                /\ Begin(s, [Idle EXCEPT !.op = "redeem", !.tok = tok,
                              !.inv = tok.invite_id, !.co = tok.company_id,
                              !.email = tok.email, !.name = tok.tech_name,
                              !.tchk = now, !.after = aft])
                /\ Respond(NoResp)
    /\ UNCHANGED <<now, invites, users, tokens, cancelled, job_tickets, invoices>>

\* db.add(new_user); tech_invite.mark_as_used(); db.commit()
RedeemCommit(s) ==
    /\ req[s].op = "redeem"
    /\ MayStep(s)
    /\ LET r == [NoResp EXCEPT !.op = "redeem", !.tok = req[s].tok,
                               !.tchk = req[s].tchk, !.inv = req[s].inv,
                               !.co = req[s].co, !.email = req[s].email,
                               !.snap = "pending", !.after = req[s].after,
                               !.stage = "commit"]
       IN  IF unique_email_violation(req[s].email) \/ not_null_violation(req[s].email)
           THEN \* IntegrityError on INSERT INTO users: rollback, 409
                /\ Respond([r EXCEPT !.res = 409, !.msg = "Account creation failed"])
                /\ UNCHANGED <<invites, users>>
           ELSE /\ users' = Append(users, NewTechUser(req[s].email, req[s].co,
                                                      req[s].inv))
                /\ invites' = [invites EXCEPT ![req[s].inv] = mark_as_used(@, now)]
                /\ Respond([r EXCEPT !.res = 200,
                                     !.msg = "Account created successfully"])
    /\ End(s)
    /\ UNCHANGED <<now, tokens, cancelled, job_tickets, invoices>>

\* ------------------------------------------------------------------------
\* list_tech_invites (GET /tech-invites/)
\* ------------------------------------------------------------------------
\* current_user is a manager or an admin (role) of company co; the query
\* filters on current_user.company.company_id whatever the role
ListLoad(s, role, co, status_filter) ==
    /\ req[s].op = "idle"
    /\ MayStep(s)
    /\ LET rows == {i \in InviteIds :
                      /\ invites[i].company_id = co
                      /\ (status_filter # "" => invites[i].status = status_filter)}
           exp == {i \in rows : invites[i].status = "pending"
                                /\ is_expired(invites[i], now)}
       IN  /\ Begin(s, [Idle EXCEPT !.op = "list", !.co = co, !.marked = exp])
           /\ Respond([NoResp EXCEPT !.op = "list", !.co = co, !.role = role,
                                     !.rows = rows, !.tchk = now, !.stage = "load"])
    /\ UNCHANGED <<now, invites, users, tokens, cancelled, job_tickets, invoices>>

ListCommit(s) ==
    /\ req[s].op = "list"
    /\ MayStep(s)
    /\ invites' = [i \in InviteIds |->
                     IF i \in req[s].marked THEN mark_as_expired(invites[i])
                                            ELSE invites[i]]
    /\ Respond([NoResp EXCEPT !.op = "list", !.res = 200, !.co = req[s].co,
                              !.stage = "commit"])
    /\ End(s)
    /\ UNCHANGED <<now, users, tokens, cancelled, job_tickets, invoices>>

\* ------------------------------------------------------------------------
\* cancel_tech_invite (DELETE /tech-invites/{invite_id})
\* ------------------------------------------------------------------------
CancelLoad(s, role, co, id) ==
    /\ req[s].op = "idle"
    /\ MayStep(s)
    /\ LET r == [NoResp EXCEPT !.op = "cancel", !.co = co, !.inv = id,
                               !.tchk = now, !.role = role]
       IN  IF Lookup(id, co) = {}
           THEN /\ Respond([r EXCEPT !.res = 404, !.msg = "Invite not found",
                                     !.stage = "lookup"])
                /\ UNCHANGED req
           ELSE IF invites[id].status # "pending"
           THEN /\ Respond([r EXCEPT !.res = 400, !.snap = invites[id].status,
                                     !.msg = invites[id].status, !.stage = "status"])
                /\ UNCHANGED req
           ELSE /\ Begin(s, [Idle EXCEPT !.op = "cancel", !.co = co, !.inv = id])
                /\ Respond(NoResp)
    /\ UNCHANGED <<now, invites, users, tokens, cancelled, job_tickets, invoices>>

CancelCommit(s) ==
    /\ req[s].op = "cancel"
    /\ MayStep(s)
    /\ invites' = [invites EXCEPT ![req[s].inv] = mark_as_cancelled(@)]
    /\ cancelled' = cancelled \cup {req[s].inv}
    /\ Respond([NoResp EXCEPT !.op = "cancel", !.res = 200, !.co = req[s].co,
                              !.inv = req[s].inv, !.snap = "pending",
                              !.stage = "commit"])
    /\ End(s)
    /\ UNCHANGED <<now, users, tokens, job_tickets, invoices>>

\* ------------------------------------------------------------------------
\* send_tech_invite_email (POST /tech-invites/send-email)
\* ------------------------------------------------------------------------
\* The TechInvite mapper has no delivery_method attribute: the constructor
\* call of the "create new invite record" branch raises TypeError, which the
\* handler turns into rollback and 500.  On the other branch the assignments
\* invite_record.delivery_method = "email" (not a column) and
\* invite_record.status = "pending" (the loaded value) change no column.
SendCheck(s, co, e, n) ==
    /\ req[s].op = "idle"
    /\ MayStep(s)
    /\ Cardinality(EmailTokens) + Cardinality(InFlight("send")) < MaxEmails
    /\ LET r == [NoResp EXCEPT !.op = "send", !.co = co, !.email = e,
                               !.tchk = now]
           m == PendingFor(e, co)
       IN  IF UserExists(e)
           THEN /\ Respond([r EXCEPT !.res = 409, !.msg = "user exists",
                                     !.stage = "user"])
                /\ UNCHANGED req
           ELSE \/ /\ m = {}
                   /\ Respond([r EXCEPT !.res = 500, !.msg = "TypeError",
                                        !.stage = "construct"])
                   /\ UNCHANGED req
                \/ \E i \in m :
                     /\ Begin(s, [Idle EXCEPT !.op = "send", !.co = co, !.email = e,
                                   !.inv = i, !.tchk = now,
                                   !.tok = generate_invite_token(i, co, n, e, now)])
                     /\ Respond(NoResp)
    /\ UNCHANGED <<now, invites, users, tokens, cancelled, job_tickets, invoices>>

\* await email_service.send_tech_invitation(...); db.commit() flushes nothing
SendEmail(s, email_sent) ==
    /\ req[s].op = "send"
    /\ MayStep(s)
    /\ LET r == [NoResp EXCEPT !.op = "send", !.co = req[s].co,
                               !.email = req[s].email, !.inv = req[s].inv,
                               !.tok = req[s].tok, !.tchk = req[s].tchk,
                               !.stage = "email"]
       IN  IF email_sent = "true"
           THEN /\ tokens' = tokens \cup {req[s].tok}
                /\ Respond([r EXCEPT !.res = 200, !.msg = "Invitation sent"])
           ELSE /\ tokens' = tokens
                /\ Respond([r EXCEPT !.res = 500, !.msg = "email failure"])
    /\ End(s)
    /\ UNCHANGED <<now, invites, users, cancelled, job_tickets, invoices>>

\* ------------------------------------------------------------------------
\* time
\* ------------------------------------------------------------------------
Tick ==
    /\ now < MaxTime
    /\ now' = now + 1
    /\ Respond(NoResp)
    /\ UNCHANGED <<invites, users, tokens, req, cancelled, job_tickets, invoices>>

Init ==
    /\ now = 0
    /\ invites = <<>>
    /\ users = <<>>
    /\ tokens = {}
    /\ req = [s \in Sessions |-> Idle]
    /\ cancelled = {}
    /\ resp = NoResp
    /\ job_tickets = <<>>
    /\ invoices = <<>>

Next ==
    \/ \E s \in Sessions, co \in Inviters, e \in Emails, n \in Names :
          CreateCheck(s, co, e, n)
    \/ \E s \in Sessions : CreateCommit(s)
    \/ \E s \in Sessions, tok \in tokens : ValidateInvite(s, tok)
    \/ \E s \in Sessions, tok \in tokens : RedeemCheck(s, tok)
    \/ \E s \in Sessions : RedeemCommit(s)
    \/ \E s \in Sessions, co \in Companies, f \in StatusFilters :
          ListLoad(s, "manager", co, f)
    \/ \E s \in Sessions : ListCommit(s)
    \/ \E s \in Sessions, co \in Companies, id \in 1..MaxInvites :
          CancelLoad(s, "manager", co, id)
    \/ \E s \in Sessions : CancelCommit(s)
    \/ \E s \in Sessions, co \in Inviters, e \in Emails, n \in Names :
          SendCheck(s, co, e, n)
    \/ \E s \in Sessions, r \in {"true", "false", "raise"} : SendEmail(s, r)
    \/ Tick

Spec == Init /\ [][Next]_vars

\* ------------------------------------------------------------------------
\* the invite endpoints that take a token, served one request at a time,
\* with every presentable token
\* ------------------------------------------------------------------------
NextTok ==
    \/ \E co \in Inviters, e \in Emails, n \in Names : CreateCheck("s2", co, e, n)
    \/ CreateCommit("s2")
    \/ \E tok \in Presentable : ValidateInvite("s2", tok)
    \/ \E tok \in Presentable : RedeemCheck("s2", tok)
    \/ RedeemCommit("s2")
    \/ Tick

SpecTok == Init /\ [][NextTok]_vars

\* ------------------------------------------------------------------------
\* the endpoints behind require_role, served one request at a time, with
\* managers and admins of every company
\* ------------------------------------------------------------------------
NextTenant ==
    \/ \E co \in Companies, e \in Emails, n \in Names : CreateCheck("s2", co, e, n)
    \/ CreateCommit("s2")
    \/ \E role \in Roles, co \in Companies, f \in StatusFilters :
          ListLoad("s2", role, co, f)
    \/ ListCommit("s2")
    \/ \E role \in Roles, co \in Companies, id \in 1..MaxInvites :
          CancelLoad("s2", role, co, id)
    \/ CancelCommit("s2")
    \/ Tick

SpecTenant == Init /\ [][NextTenant]_vars

\* ------------------------------------------------------------------------
\* routes/job_tickets.py: get, update and delete by id
\* ------------------------------------------------------------------------
\* the users get_current_user can return
CurrentUsers ==
    {[id |-> 1, role |-> "manager", company_id |-> "A"],
     [id |-> 2, role |-> "tech", company_id |-> "A"],
     [id |-> 3, role |-> "manager", company_id |-> "B"],
     [id |-> 4, role |-> "tech", company_id |-> "B"],
     [id |-> 5, role |-> "admin", company_id |-> "A"]}

JobTicketStatus == {"draft", "submitted", "complete"}

\* ---- utils/ticket_number.py ----
Years == {2009}                     \* datetime.datetime.now().year
RandomDraws == {0, 7, 999999}       \* random.randint(0, 999999)
max_attempts == 10
MaxLookups == 12    \* lookups of one call that find a row

\* the lookups of the first session are followed to the bound, those of
\* the second to one collision
CollisionCap(s) == IF s = "s1" THEN MaxLookups ELSE 1

\* str(n) for n >= 0, as the sequence of its digits
RECURSIVE str_int(_)
str_int(n) == IF n < 10 THEN <<n>> ELSE str_int(n \div 10) \o <<n % 10>>

\* s.zfill(w)
zfill(s, w) == IF Len(s) >= w THEN s ELSE [i \in 1..(w - Len(s)) |-> 0] \o s

\* str(year)[-2:]
current_year_of(year) ==
    IF Len(str_int(year)) <= 2 THEN str_int(year)
    ELSE SubSeq(str_int(year), Len(str_int(year)) - 1, Len(str_int(year)))

\* f"{current_year}{random_digits}"
ticket_number_of(current_year, n) == current_year \o zfill(str_int(n), 6)

\* a ticket_number column that is NULL
NoNumber == <<>>

\* a row as create_job_ticket writes it: user_id and company_id are the
\* creator's
NewJobTicket(u) == [user_id |-> u.id, company_id |-> u.company_id, status |-> "draft",
                    ticket_number |-> NoNumber]

ticket_numbers == {job_tickets[i].ticket_number : i \in DOMAIN job_tickets} \ {NoNumber}

\* a request that is inside generate_ticket_number or has its result;
\* absent records what the last lookup found
NoUser == [id |-> 0, role |-> "", company_id |-> ""]

TicketIdle == [op |-> "idle", handler |-> "", u |-> NoUser, id |-> 0, st |-> "",
               current_year |-> <<>>, attempts |-> 0, lookups |-> 0,
               collisions |-> 0, ticket_number |-> NoNumber, absent |-> FALSE]

\* the call of generate_ticket_number(db): line 36 to 39
generate_ticket_number(handler, u, id, st, year) ==
    [TicketIdle EXCEPT !.op = "generate", !.handler = handler, !.u = u, !.id = id,
                       !.st = st, !.current_year = current_year_of(year)]

\* a generator that returns its eleventh candidate without a lookup
ticket_lookup_gives_up(r, n) ==
    IF r.attempts >= max_attempts
    THEN [r EXCEPT !.op = "generated",
                   !.ticket_number = ticket_number_of(r.current_year, n),
                   !.absent = ticket_number_of(r.current_year, n) \notin ticket_numbers]
    ELSE IF ticket_number_of(r.current_year, n) \notin ticket_numbers
    THEN [r EXCEPT !.op = "generated",
                   !.ticket_number = ticket_number_of(r.current_year, n),
                   !.lookups = @ + 1, !.absent = TRUE]
    ELSE [r EXCEPT !.attempts = @ + 1, !.lookups = @ + 1, !.collisions = @ + 1]

\* one iteration of either loop with the draw n: the candidate, the query
\* for a row with that number, and the return or the next attempt
ticket_lookup(r, n) ==
    IF ticket_number_of(r.current_year, n) \notin ticket_numbers
    THEN [r EXCEPT !.op = "generated",
                   !.ticket_number = ticket_number_of(r.current_year, n),
                   !.lookups = @ + 1, !.absent = TRUE]
    ELSE [r EXCEPT !.attempts = IF @ < max_attempts THEN @ + 1 ELSE @,
                   !.lookups = @ + 1, !.collisions = @ + 1]

GenerateLookup(s, n) ==
    /\ req[s].op = "generate"
    /\ \E r \in {ticket_lookup(req[s], n)} :
          /\ r.op = "generate" => req[s].collisions < CollisionCap(s)
          /\ req' = [req EXCEPT ![s] = r]
    /\ Respond(NoResp)
    /\ UNCHANGED <<now, invites, users, tokens, cancelled, job_tickets, invoices>>

\* the draw is a number no row has
GenerateLookupFree(s) ==
    \E n \in RandomDraws : GenerateLookup(s, n) /\ req'[s].op = "generated"

\* ---- routes/job_tickets.py ----
\* the check all three handlers make after loading the row: 404 when there
\* is no row, 403 for a tech who does not own it, 0 when the request goes on
job_ticket_access(u, id) ==
    IF id \notin DOMAIN job_tickets THEN 404
    ELSE IF u.role = "tech" /\ job_tickets[id].user_id # u.id THEN 403
    ELSE 0

JobTicketResp(o, u, id, res) ==
    [NoResp EXCEPT !.op = o, !.res = res, !.role = u.role, !.co = u.company_id,
                   !.inv = id,
                   !.snap = IF id \in DOMAIN job_tickets
                            THEN job_tickets[id].company_id ELSE ""]

get_job_ticket(u, id) ==
    /\ LET a == job_ticket_access(u, id)
       IN  Respond(JobTicketResp("get_job_ticket", u, id, IF a = 0 THEN 200 ELSE a))
    /\ UNCHANGED <<now, invites, users, tokens, req, cancelled, job_tickets, invoices>>

\* update_job_ticket up to its commit, or up to the call of
\* generate_ticket_number when a draft without a number is submitted
update_job_ticket(s, u, id, st, year) ==
    /\ req[s].op = "idle"
    /\ LET a == job_ticket_access(u, id)
       IN  IF a # 0
           THEN /\ Respond(JobTicketResp("update_job_ticket", u, id, a))
                /\ UNCHANGED <<req, job_tickets>>
           ELSE IF /\ job_tickets[id].status = "draft" /\ st = "submitted"
                   /\ job_tickets[id].ticket_number = NoNumber
           THEN /\ req' = [req EXCEPT ![s] =
                              generate_ticket_number("update_job_ticket", u, id, st, year)]
                /\ Respond(NoResp)
                /\ UNCHANGED job_tickets
           ELSE /\ Respond(JobTicketResp("update_job_ticket", u, id, 200))
                /\ job_tickets' = [job_tickets EXCEPT ![id].status = st]
                /\ UNCHANGED req
    /\ UNCHANGED <<now, invites, users, tokens, cancelled, invoices>>

\* update_job_ticket after generate_ticket_number returned: the number and
\* the status are set and committed; the UPDATE fails when the row is gone
\* (StaleDataError) or another row holds the number (IntegrityError of
\* uix_ticket_number), and neither exception is handled
UpdateCommit(s) ==
    /\ req[s].op = "generated" /\ req[s].handler = "update_job_ticket"
    /\ IF \/ req[s].id \notin DOMAIN job_tickets
          \/ \E i \in DOMAIN job_tickets \ {req[s].id} :
                job_tickets[i].ticket_number = req[s].ticket_number
       THEN /\ Respond(JobTicketResp("update_job_ticket", req[s].u, req[s].id, 500))
            /\ UNCHANGED job_tickets
       ELSE /\ Respond(JobTicketResp("update_job_ticket", req[s].u, req[s].id, 200))
            /\ job_tickets' = [job_tickets EXCEPT
                                  ![req[s].id].ticket_number = req[s].ticket_number,
                                  ![req[s].id].status = req[s].st]
    /\ req' = [req EXCEPT ![s] = TicketIdle]
    /\ UNCHANGED <<now, invites, users, tokens, cancelled, invoices>>

delete_job_ticket(u, id) ==
    /\ LET a == job_ticket_access(u, id)
       IN  /\ Respond(JobTicketResp("delete_job_ticket", u, id,
                                    IF a = 0 THEN 204 ELSE a))
           /\ job_tickets' = IF a = 0
                             THEN [i \in DOMAIN job_tickets \ {id} |-> job_tickets[i]]
                             ELSE job_tickets
    /\ UNCHANGED <<now, invites, users, tokens, req, cancelled, invoices>>

\* submit_job_ticket up to the call of generate_ticket_number: 400 without
\* a signature or a description
submit_job_ticket(s, submitted_by, description, year) ==
    /\ req[s].op = "idle"
    /\ IF ~submitted_by \/ ~description
       THEN /\ Respond([NoResp EXCEPT !.op = "submit_job_ticket", !.res = 400])
            /\ UNCHANGED req
       ELSE /\ req' = [req EXCEPT ![s] =
                          generate_ticket_number("submit_job_ticket", NoUser, 0,
                                                 "submitted", year)]
            /\ Respond(NoResp)
    /\ UNCHANGED <<now, invites, users, tokens, cancelled, job_tickets, invoices>>

\* submit_job_ticket after generate_ticket_number returned:
\* JobTicket(**ticket_data) raises TypeError for the key company_name, the
\* handler rolls back and answers 500
SubmitConstruct(s) ==
    /\ req[s].op = "generated" /\ req[s].handler = "submit_job_ticket"
    /\ Respond([NoResp EXCEPT !.op = "submit_job_ticket", !.res = 500])
    /\ req' = [req EXCEPT ![s] = TicketIdle]
    /\ UNCHANGED <<now, invites, users, tokens, cancelled, job_tickets, invoices>>

\* the table holds tickets created by users of the two companies
InitTickets ==
    /\ now = 0
    /\ invites = <<>>
    /\ users = <<>>
    /\ tokens = {}
    /\ req = [s \in Sessions |-> TicketIdle]
    /\ cancelled = {}
    /\ resp = NoResp
    /\ invoices = <<>>
    /\ job_tickets \in [1..MaxTickets ->
                           {NewJobTicket(u) : u \in {c \in CurrentUsers : c.role # "admin"}}]

\* one request at a time
NextTickets ==
    \/ \E u \in CurrentUsers, id \in 1..MaxTickets : get_job_ticket(u, id)
    \/ \E u \in CurrentUsers, id \in 1..MaxTickets, st \in JobTicketStatus, year \in Years :
          update_job_ticket("s2", u, id, st, year)
    \/ \E n \in RandomDraws : GenerateLookup("s2", n)
    \/ UpdateCommit("s2")
    \/ \E u \in CurrentUsers, id \in 1..MaxTickets : delete_job_ticket(u, id)

SpecTickets == InitTickets /\ [][NextTickets]_vars

\* ---- ticket numbers: two requests at a time ----
Submitter == [id |-> 1, role |-> "manager", company_id |-> "A"]

InitNumbers ==
    /\ now = 0
    /\ invites = <<>>
    /\ users = <<>>
    /\ tokens = {}
    /\ req = [s \in Sessions |-> TicketIdle]
    /\ cancelled = {}
    /\ resp = NoResp
    /\ invoices = <<>>
    /\ job_tickets = [i \in 1..MaxTickets |-> NewJobTicket(Submitter)]

NextNumbers ==
    \/ \E s \in Sessions, id \in 1..MaxTickets, st \in JobTicketStatus, year \in Years :
          update_job_ticket(s, Submitter, id, st, year)
    \/ \E s \in Sessions, submitted_by \in BOOLEAN, description \in BOOLEAN, year \in Years :
          submit_job_ticket(s, submitted_by, description, year)
    \/ \E s \in Sessions, n \in RandomDraws : GenerateLookup(s, n)
    \/ \E s \in Sessions : UpdateCommit(s)
    \/ \E s \in Sessions : SubmitConstruct(s)

SpecNumbers == InitNumbers /\ [][NextNumbers]_vars

\* random.randint draws every number again and again: a call that keeps
\* drawing draws a number no row has
SpecNumbersFair ==
    SpecNumbers /\ \A s \in Sessions : WF_vars(GenerateLookupFree(s))
\* ------------------------------------------------------------------------
\* core/encryption.py
\* ------------------------------------------------------------------------
\* A Python str is the sequence of its code points.  The strings of the
\* model are made of "a" (one byte in UTF-8), U+00E9 (two bytes), U+20AC
\* (three bytes) and the unpaired surrogate U+D800, which a str can hold
\* (json.loads('"\ud800"')) and UTF-8 cannot encode; "0.0" is the literal
\* of the column defaults of models/invoice.py.
CodePoints == {97, 233, 8364, 55296}
MaxLen == 2         \* code points of a plaintext

Plaintexts == UNION {[1..n -> CodePoints] : n \in 0..MaxLen}

ZeroPointZero == <<48, 46, 48>>     \* "0.0"

\* the values passed to and returned by encrypt_field and decrypt_field:
\* None, a str given by its code points, or the str that is the base64url
\* text of a Fernet token.  The token is 57 + 16n bytes long (n AES blocks);
\* for n = 1 its text ends in a character that carries two bits of the token
\* and four spare bits, followed by "==".
NoCt == [key |-> "", data |-> <<>>, iv |-> 0]
NoMac == [key |-> "", iv |-> 0, version |-> 0, ts |-> 0, ct |-> NoCt]
NoFernet == [iv |-> 0, version |-> 0, ts |-> 0, ct |-> NoCt, mac |-> NoMac]

PyNone == [tok |-> NoFernet, kind |-> "None", text |-> <<>>, spare |-> 0]
Text(s) == [tok |-> NoFernet, kind |-> "str", text |-> s, spare |-> 0]
TokenText(tok, k) == [tok |-> tok, kind |-> "token", text |-> <<>>, spare |-> k]

Returns(v) == [raised |-> "", value |-> v]
Raises(e) == [raised |-> e, value |-> PyNone]

FERNET_KEY == "FERNET_KEY"          \* the key of the process
IVs == {1, 2}                       \* os.urandom(16)
Times == 0..MaxTime                 \* int(time.time())

\* str.encode(): UTF-8
encodable(s) == \A i \in 1..Len(s) : s[i] \notin 55296..57343

RECURSIVE str_encode(_)
str_encode(s) ==
    IF s = <<>> THEN <<>>
    ELSE LET c == Head(s)
         IN  (IF c < 128 THEN <<c>>
              ELSE IF c < 2048 THEN <<192 + (c \div 64), 128 + (c % 64)>>
              ELSE <<224 + (c \div 4096), 128 + ((c \div 64) % 64), 128 + (c % 64)>>)
             \o str_encode(Tail(s))

\* bytes.decode() as Latin-1 would do it: one code point per byte
RECURSIVE bytes_decode_latin1(_)
bytes_decode_latin1(b) ==
    IF b = <<>> THEN <<>> ELSE <<Head(b)>> \o bytes_decode_latin1(Tail(b))

\* bytes.decode(): UTF-8; -1 stands where UnicodeDecodeError is raised
RECURSIVE bytes_decode(_)
bytes_decode(b) ==
    IF b = <<>> THEN <<>>
    ELSE IF b[1] < 128 THEN <<b[1]>> \o bytes_decode(Tail(b))
    ELSE IF b[1] \in 192..223 /\ Len(b) >= 2 /\ b[2] \in 128..191
    THEN LET c == (b[1] - 192) * 64 + (b[2] - 128)
         IN  IF c < 128 THEN <<-1>>
             ELSE <<c>> \o bytes_decode(SubSeq(b, 3, Len(b)))
    ELSE IF b[1] \in 224..239 /\ Len(b) >= 3 /\ b[2] \in 128..191 /\ b[3] \in 128..191
    THEN LET c == (b[1] - 224) * 4096 + (b[2] - 128) * 64 + (b[3] - 128)
         IN  IF c < 2048 \/ c \in 55296..57343 THEN <<-1>>
             ELSE <<c>> \o bytes_decode(SubSeq(b, 4, Len(b)))
    ELSE <<-1>>

decodable(b) == \A i \in 1..Len(bytes_decode(b)) : bytes_decode(b)[i] # -1

\* PKCS7 padding to the AES block of 16 bytes
pad(b) == b \o [i \in 1..(16 - (Len(b) % 16)) |-> 16 - (Len(b) % 16)]

padded(d) ==
    /\ Len(d) > 0 /\ Len(d) % 16 = 0
    /\ d[Len(d)] \in 1..16
    /\ \A i \in (Len(d) - d[Len(d)] + 1)..Len(d) : d[i] = d[Len(d)]

unpad(d) == SubSeq(d, 1, Len(d) - d[Len(d)])

\* AES-128-CBC and HMAC-SHA256 under the two halves of the Fernet key, as
\* terms: a ciphertext decrypts to its data under its key and IV only, a
\* MAC is equal to another only when key and message are
aes_encrypt(key, iv, data) == [key |-> key, data |-> data, iv |-> iv]

aes_decrypt(key, iv, ct) == IF ct.key = key /\ ct.iv = iv THEN ct.data ELSE <<0>>

fernet_hmac(key, version, ts, iv, ct) ==
    [key |-> key, iv |-> iv, version |-> version, ts |-> ts, ct |-> ct]

\* Fernet(key).encrypt(data) at time ts with the random IV iv
fernet_encrypt(key, data, iv, ts) ==
    LET ct == aes_encrypt(key, iv, pad(data))
    IN  [iv |-> iv, version |-> 128, ts |-> ts, ct |-> ct,
         mac |-> fernet_hmac(key, 128, ts, iv, ct)]

\* Fernet(key).decrypt(token) without ttl.  base64.urlsafe_b64decode drops
\* the spare bits of the last character; a str that is not the text of a
\* token decodes to too few bytes or not at all.
fernet_decrypt(key, v) ==
    IF v.kind # "token" THEN [raised |-> "InvalidToken", data |-> <<>>]
    ELSE IF v.tok.version # 128 THEN [raised |-> "InvalidToken", data |-> <<>>]
    ELSE IF v.tok.mac # fernet_hmac(key, v.tok.version, v.tok.ts, v.tok.iv, v.tok.ct)
    THEN [raised |-> "InvalidToken", data |-> <<>>]
    ELSE LET d == aes_decrypt(key, v.tok.iv, v.tok.ct)
         IN  IF ~padded(d) THEN [raised |-> "InvalidToken", data |-> <<>>]
             ELSE [raised |-> "", data |-> unpad(d)]

\* encrypt_field(value): value is None or a str
encrypt_field_with(key, value, iv, ts) ==
    IF value.kind = "None" THEN Returns(PyNone)
    ELSE IF ~encodable(value.text) THEN Raises("UnicodeEncodeError")
    ELSE Returns(TokenText(fernet_encrypt(key, str_encode(value.text), iv, ts), 0))

encrypt_field(value, iv, ts) == encrypt_field_with(FERNET_KEY, value, iv, ts)

\* a decrypt_field that answers None where the library raises
decrypt_field_none_on_error(value) ==
    IF value.kind = "None" THEN Returns(PyNone)
    ELSE LET r == fernet_decrypt(FERNET_KEY, value)
         IN  IF r.raised # "" THEN Returns(PyNone)
             ELSE IF ~decodable(r.data) THEN Returns(PyNone)
             ELSE Returns(Text(bytes_decode(r.data)))

\* decrypt_field(value): the except clause logs and raises again
decrypt_field(value) ==
    IF value.kind = "None" THEN Returns(PyNone)
    ELSE IF value.kind = "str" /\ ~encodable(value.text) THEN Raises("UnicodeEncodeError")
    ELSE LET r == fernet_decrypt(FERNET_KEY, value)
         IN  IF r.raised # "" THEN Raises(r.raised)
             ELSE IF ~decodable(r.data) THEN Raises("UnicodeDecodeError")
             ELSE Returns(Text(bytes_decode(r.data)))

\* ---- texts that are not what encrypt_field returned ----
\* the same token bytes in another text: other spare bits in the last
\* character
Respelled(c) == {[c EXCEPT !.spare = k] : k \in (0..15) \ {c.spare}}

\* the text of a token with other bytes: another timestamp, IV, ciphertext,
\* MAC or version byte
Modified(c) ==
    {[c EXCEPT !.tok.ts = @ + 1],
     [c EXCEPT !.tok.iv = @ + 1],
     [c EXCEPT !.tok.ct.data = pad(<<98>>)],
     [c EXCEPT !.tok.ct.iv = @ + 1],
     [c EXCEPT !.tok.mac.ts = @ + 1],
     [c EXCEPT !.tok.version = 129]} \ {c}

\* strings that are not the text of any token
Malformed == {Text(<<>>), Text(<<97>>), Text(ZeroPointZero), Text(<<55296>>)}

\* ---- encrypt_field and decrypt_field applied ----
\* resp holds the call just made: its argument, its result and, for a
\* decrypt_field, how the argument was obtained from the result of the
\* encrypt_field call before it
CryptResp == [op |-> "none", arg |-> PyNone, out |-> Returns(PyNone),
              plain |-> PyNone, how |-> ""]

InitCrypt ==
    /\ now = 0
    /\ invites = <<>>
    /\ users = <<>>
    /\ tokens = {}
    /\ req = [s \in Sessions |-> Idle]
    /\ cancelled = {}
    /\ resp = CryptResp
    /\ job_tickets = <<>>
    /\ invoices = <<>>

EncryptField(value, iv, ts) ==
    /\ resp' = [CryptResp EXCEPT !.op = "encrypt_field", !.arg = value,
                                 !.out = encrypt_field(value, iv, ts)]
    /\ UNCHANGED <<now, invites, users, tokens, req, cancelled, job_tickets, invoices>>

\* a text written under the key of another process
EncryptOtherKey(value, iv, ts) ==
    /\ resp' = [CryptResp EXCEPT !.op = "encrypt_other_key", !.arg = value,
                                 !.out = encrypt_field_with("other_key", value, iv, ts)]
    /\ UNCHANGED <<now, invites, users, tokens, req, cancelled, job_tickets, invoices>>

DecryptField(value, how) ==
    /\ resp' = [CryptResp EXCEPT !.op = "decrypt_field", !.arg = value,
                                 !.out = decrypt_field(value),
                                 !.plain = resp.arg, !.how = how]
    /\ UNCHANGED <<now, invites, users, tokens, req, cancelled, job_tickets, invoices>>

NextCrypt ==
    \/ \E s \in Plaintexts, iv \in IVs, ts \in Times : EncryptField(Text(s), iv, ts)
    \/ \E iv \in IVs, ts \in Times : EncryptField(PyNone, iv, ts)
    \/ \E s \in Plaintexts, iv \in IVs, ts \in Times : EncryptOtherKey(Text(s), iv, ts)
    \/ /\ resp.op = "encrypt_field" /\ resp.out.raised = ""
       /\ DecryptField(resp.out.value, "same")
    \/ /\ resp.op = "encrypt_field" /\ resp.out.raised = ""
       /\ resp.out.value.kind = "token"
       /\ \E c \in Respelled(resp.out.value) : DecryptField(c, "respelled")
    \/ /\ resp.op = "encrypt_field" /\ resp.out.raised = ""
       /\ resp.out.value.kind = "token"
       /\ \E c \in Modified(resp.out.value) : DecryptField(c, "modified")
    \/ /\ resp.op = "encrypt_other_key" /\ resp.out.raised = ""
       /\ DecryptField(resp.out.value, "other key")
    \/ \E c \in Malformed : DecryptField(c, "malformed")

SpecCrypt == InitCrypt /\ [][NextCrypt]_vars

\* ------------------------------------------------------------------------
\* models/invoice.py, models/job_ticket.py, routes/invoices.py: the
\* encrypted columns
\* ------------------------------------------------------------------------
MaxInvoices == 1    \* rows of invoices

EncryptedColumns == {"customer_name", "company_name", "subtotal", "service_fee",
                     "tax", "total_amount", "line_items", "job_ticket_ids"}

\* an attribute the constructor was not given
Unset == [tok |-> NoFernet, kind |-> "unset", text |-> <<>>, spare |-> 0]

\* a float is given by the text str() makes of it; 0.0 is the falsy one
Floats == {ZeroPointZero, <<49, 46, 53>>}

\* str(value or 0.0)
str_or_zero(value) ==
    IF value.kind = "None" \/ value.text = ZeroPointZero THEN Text(ZeroPointZero) ELSE value

\* float(text): digits, a point, digits
float_parses(s) ==
    /\ Len(s) >= 3
    /\ \E k \in 2..(Len(s) - 1) :
          /\ s[k] = 46
          /\ \A i \in (1..Len(s)) \ {k} : s[i] \in 48..57

\* json.dumps(value) of a str without quotes or backslashes, and of the
\* lists [] and [1] of job_ticket_ids
json_dumps_str(value) == Text(<<34>> \o value.text \o <<34>>)
EmptyListJson == <<91, 93>>
JobTicketIdsJson == {EmptyListJson, <<91, 49, 93>>}

\* the property setters: the value the column attribute gets, or the
\* exception
set_required(value, iv, ts) ==
    IF value.kind = "None" THEN Raises("ValueError") ELSE encrypt_field(value, iv, ts)

set_amount(value, iv, ts) == encrypt_field(str_or_zero(value), iv, ts)

set_json(value, iv, ts) ==
    IF value.kind = "None" THEN Returns(PyNone)
    ELSE encrypt_field(json_dumps_str(value), iv, ts)

setter(column, value, iv, ts) ==
    IF column \in {"customer_name", "company_name", "subtotal", "total_amount"}
    THEN set_required(value, iv, ts)
    ELSE IF column \in {"service_fee", "tax"} THEN set_amount(value, iv, ts)
    ELSE set_json(value, iv, ts)

\* Column(..., default=...): what INSERT stores for an attribute that was
\* never set
column_default(column) ==
    IF column \in {"service_fee", "tax"} THEN Text(ZeroPointZero) ELSE PyNone

\* Invoice(**kwargs), db.add, db.commit: every keyword goes through its
\* setter, the other columns get their default
Invoice(kwargs, iv, ts) ==
    [c \in EncryptedColumns |->
        IF kwargs[c] = Unset THEN Returns(column_default(c))
        ELSE setter(c, kwargs[c], iv, ts)]

\* the property getters: what reading the attribute of a loaded row gives
getter(column, stored) ==
    IF stored.kind = "None" THEN Returns(PyNone)
    ELSE LET r == decrypt_field(stored)
         IN  IF r.raised # "" THEN r
             ELSE IF column \in {"subtotal", "service_fee", "tax", "total_amount"}
                     /\ ~float_parses(r.value.text)
             THEN Raises("ValueError")
             ELSE r

readable(row) == \A c \in EncryptedColumns : getter(c, row[c]).raised = ""

InvoiceResp(o, res) == [NoResp EXCEPT !.op = o, !.res = res]

AddInvoice(o, kwargs, iv) ==
    /\ Len(invoices) < MaxInvoices
    /\ \E row \in {Invoice(kwargs, iv, now)} :
          IF \E c \in EncryptedColumns : row[c].raised # ""
          THEN /\ Respond(InvoiceResp(o, 500))
               /\ UNCHANGED invoices
          ELSE /\ Respond(InvoiceResp(o, 200))
               /\ invoices' = Append(invoices, [c \in EncryptedColumns |-> row[c].value])
    /\ UNCHANGED <<now, invites, users, tokens, req, cancelled, job_tickets>>

\* the keywords create_invoice passes: every encrypted attribute, the two
\* lists already dumped to JSON
InvoiceCreate(customer_name, subtotal, service_fee, tax, job_ticket_ids) ==
    [c \in EncryptedColumns |->
        CASE c = "customer_name" -> Text(customer_name)
          [] c = "company_name" -> Text(<<97>>)
          [] c = "subtotal" -> Text(subtotal)
          [] c = "service_fee" -> Text(service_fee)
          [] c = "tax" -> Text(tax)
          [] c = "total_amount" -> Text(subtotal)
          [] c = "line_items" -> Text(EmptyListJson)
          [] c = "job_ticket_ids" -> Text(job_ticket_ids)]

create_invoice(data, iv) == AddInvoice("create_invoice", data, iv)

\* a row added through the model without some of the attributes that have
\* a column default
insert_invoice(data, unset, iv) ==
    AddInvoice("Invoice", [c \in EncryptedColumns |-> IF c \in unset THEN Unset ELSE data[c]], iv)

\* update_invoice with one field: setattr through the setter, commit; an
\* exception rolls back and answers 500
update_invoice(id, column, value, iv) ==
    /\ IF id \notin DOMAIN invoices
       THEN /\ Respond(InvoiceResp("update_invoice", 404))
            /\ UNCHANGED invoices
       ELSE \E r \in {setter(column, value, iv, now)} :
               IF r.raised # ""
               THEN /\ Respond(InvoiceResp("update_invoice", 500))
                    /\ UNCHANGED invoices
               ELSE /\ Respond(InvoiceResp("update_invoice", 200))
                    /\ invoices' = [invoices EXCEPT ![id][column] = r.value]
    /\ UNCHANGED <<now, invites, users, tokens, req, cancelled, job_tickets>>

\* get_invoice: the response is built from the attributes of the row
get_invoice(id) ==
    /\ Respond(InvoiceResp("get_invoice",
                           IF id \notin DOMAIN invoices THEN 404
                           ELSE IF readable(invoices[id]) THEN 200 ELSE 500))
    /\ UNCHANGED <<now, invites, users, tokens, req, cancelled, job_tickets, invoices>>

\* JobTicket.location and JobTicket.work_description: the setter stores
\* None for None and encrypt_field(value) otherwise
JobTicketColumns == {"location", "work_description"}

set_optional(value, iv, ts) ==
    IF value.kind = "None" THEN Returns(PyNone) ELSE encrypt_field(value, iv, ts)

\* update_job_ticket with one of the two fields, on a row that has both
set_job_ticket_field(id, column, value, iv) ==
    /\ id \in DOMAIN job_tickets
    /\ \E r \in {set_optional(value, iv, now)} :
          IF r.raised # ""
          THEN /\ Respond(InvoiceResp("update_job_ticket", 500))
               /\ UNCHANGED job_tickets
          ELSE /\ Respond(InvoiceResp("update_job_ticket", 200))
               /\ job_tickets' = [job_tickets EXCEPT ![id][column] = r.value]
    /\ UNCHANGED <<now, invites, users, tokens, req, cancelled, invoices>>

InitColumns ==
    /\ now = 0
    /\ invites = <<>>
    /\ users = <<>>
    /\ tokens = {}
    /\ req = [s \in Sessions |-> Idle]
    /\ cancelled = {}
    /\ resp = NoResp
    /\ job_tickets = <<[c \in JobTicketColumns |-> PyNone]>>
    /\ invoices = <<>>

InvoiceInputs ==
    {InvoiceCreate(n, a, f, t, j) :
        n \in {<<97>>, <<55296>>}, a \in {<<49, 46, 53>>}, f \in Floats,
        t \in {ZeroPointZero}, j \in JobTicketIdsJson}

NextColumns ==
    \/ \E data \in InvoiceInputs, iv \in IVs : create_invoice(data, iv)
    \/ \E data \in InvoiceInputs, unset \in SUBSET {"service_fee", "tax"}, iv \in IVs :
          unset # {} /\ insert_invoice(data, unset, iv)
    \/ \E id \in 1..MaxInvoices, c \in {"customer_name", "service_fee", "line_items"},
          value \in {PyNone, Text(<<49, 46, 53>>)} :
          update_invoice(id, c, value, 1)
    \/ \E id \in 1..MaxInvoices : get_invoice(id)
    \/ \E c \in JobTicketColumns, value \in {PyNone, Text(<<233>>), Text(<<55296>>)} :
          set_job_ticket_field(1, c, value, 1)

SpecColumns == InitColumns /\ [][NextColumns]_vars

\* ========================================================================
\* Properties
\* ========================================================================
UsersWith(e) == {u \in 1..Len(users) : users[u].email = e}

TokensOf(id) == {t \in tokens : t.invite_id = id}

\* C1: two redemptions of the same token never both succeed: each email has
\* at most one User row and each invite is marked used by at most one commit;
\* a successful redemption leaves the invite accepted with exactly one user;
\* a redemption that fails although its token is unexpired and the invite has
\* been redeemed fails with 409 or 410; one that loses the race at commit
\* fails with 409 because the user row exists.
C1_SingleRedemption ==
    /\ \A e \in Emails : Cardinality(UsersWith(e)) <= 1
    /\ \A i \in InviteIds : Cardinality(UsersVia(i)) <= 1
    /\ (resp.op = "redeem" /\ resp.res = 200) =>
          /\ invites[resp.inv].status = "accepted"
          /\ Cardinality(UsersVia(resp.inv)) = 1
          /\ Cardinality(UsersWith(resp.email)) = 1
    /\ (/\ resp.op = "redeem" /\ resp.res # 200
        /\ UsersVia(resp.inv) # {}
        /\ ~token_expired(resp.tok, resp.tchk)) => resp.res \in {409, 410}
    /\ (resp.op = "redeem" /\ resp.stage = "commit" /\ resp.res # 200) =>
          /\ resp.res = 409
          /\ UserExists(resp.email)

\* a redemption passed every check and then lost the race at commit to a
\* redemption of the same (only) token of the invite
C1_Witness ==
    /\ resp.op = "redeem" /\ resp.stage = "commit" /\ resp.res = 409
    /\ UsersVia(resp.inv) # {}
    /\ Cardinality(TokensOf(resp.inv)) = 1

\* C2: in every state a user created by redeeming invite i exists if and
\* only if the status of i is accepted.
C2_UserIffAccepted ==
    \A i \in InviteIds : (UsersVia(i) # {}) <=> (invites[i].status = "accepted")

C4_RedeemAfterCancel ==
    /\ []((resp.op = "redeem" /\ "cancelled" \in resp.after) =>
            /\ resp.stage \in {"token", "valid"}
            /\ resp.res = (IF token_expired(resp.tok, resp.tchk) THEN 401 ELSE 410))
    /\ [][(resp'.op = "redeem" /\ "cancelled" \in resp'.after) =>
            users' = users]_vars

C4_Witness ==
    /\ resp.op = "redeem" /\ "cancelled" \in resp.after
    /\ ~token_expired(resp.tok, resp.tchk)
    /\ resp.tchk <= invites[resp.inv].expires_at
    /\ resp.res = 410 /\ resp.msg = "cancelled"

\* C5: at most one row with status pending exists per (email, company).
C5_OnePendingPerPair ==
    \A e \in Emails, co \in Companies : Cardinality(PendingFor(e, co)) <= 1

\* C6: a status other than pending never changes again.
C6_TerminalStatus ==
    [][\A i \in InviteIds :
          invites[i].status # "pending" => invites'[i].status = invites[i].status]_vars

\* C7: used_at is non-null if and only if the status is accepted.
C7_UsedAtIffAccepted ==
    \A i \in InviteIds : (invites[i].used_at # NULL) <=> (invites[i].status = "accepted")

\* C8 as stated: is_valid is true exactly when the status is pending and the
\* current time is strictly before expires_at.
C8_ValidStrictlyBefore ==
    \A i \in InviteIds :
        is_valid(invites[i], now) <=>
            (invites[i].status = "pending" /\ now < invites[i].expires_at)

\* C8 amended: is_valid is true exactly when the status is pending and the
\* current time is not after expires_at (true at the instant they are
\* equal); the validate endpoint, which evaluates it, accepts exactly then
\* and changes no row.
C8_ValidUntilExpiry ==
    /\ [](\A i \in InviteIds :
            is_valid(invites[i], now) <=>
                (invites[i].status = "pending" /\ now <= invites[i].expires_at))
    /\ []((resp.op = "validate" /\ resp.stage = "valid") =>
            ((resp.res = 200) <=>
                (resp.snap = "pending" /\ resp.tchk <= invites[resp.inv].expires_at)))
    /\ [][resp'.op = "validate" => (invites' = invites /\ users' = users)]_vars

\* the validate endpoint accepts at the instant now = expires_at
C8_Witness ==
    /\ resp.op = "validate" /\ resp.res = 200
    /\ resp.tchk = invites[resp.inv].expires_at

C10_CreateThenValid ==
    /\ (resp.op = "create" /\ ~resp.had) =>
          /\ resp.res = 201
          /\ invites[resp.inv].status = "pending"
          /\ invites[resp.inv].email = resp.email
          /\ invites[resp.inv].company_id = resp.co
          /\ is_valid(invites[resp.inv], now)
    /\ \A i \in InviteIds :
          (invites[i].status \notin {"accepted", "cancelled"}
             /\ now < invites[i].expires_at) => is_valid(invites[i], now)
    /\ \A t \in tokens : t.exp >= invites[t.invite_id].expires_at
    /\ (/\ resp.op = "validate"
        /\ invites[resp.inv].status \notin {"accepted", "cancelled"}
        /\ resp.tchk < invites[resp.inv].expires_at) => resp.res = 200

\* a create succeeded although an earlier invite of the pair, past its
\* expiry, still has status pending
C10_Witness ==
    /\ resp.op = "create" /\ resp.res = 201
    /\ \E j \in PendingFor(resp.email, resp.co) :
          j # resp.inv /\ is_expired(invites[j], now)

\* C11: every user created by redeem_invite_token has the role tech, the
\* company of the invite record it was created from and force_password_reset
\* false, whichever token is presented; a successful redemption creates
\* exactly such a user.
C11_RedeemedUserIsTech ==
    /\ \A u \in 1..Len(users) :
          /\ users[u].role = "tech"
          /\ users[u].via \in InviteIds
          /\ users[u].company = invites[users[u].via].company_id
          /\ users[u].force_password_reset = FALSE
    /\ (resp.op = "redeem" /\ resp.res = 200) =>
          /\ UsersVia(resp.inv) # {}
          /\ resp.tok.role = "tech"
          /\ resp.tok.company_id = invites[resp.inv].company_id

\* a redemption succeeded with a token that was signed by another issuer
\* (it lacks the tech_name claim)
C11_Witness ==
    /\ resp.op = "redeem" /\ resp.res = 200
    /\ resp.tok \notin tokens
    /\ users[Len(users)].via = resp.inv

\* C12: a redeem request that fails at token validation, at the invite
\* lookup, at the validity check or at the existing-user check changes no
\* row of tech_invites and no row of users; in the store it leaves, the
\* checks of the same request give the same answer again.
C12_FailedRedeemWritesNothing ==
    /\ [][(resp'.op = "redeem" /\ resp'.stage \in {"token", "lookup", "valid", "user"})
            => (invites' = invites /\ users' = users)]_vars
    /\ []((resp.op = "redeem" /\ resp.stage \in {"token", "lookup", "valid", "user"})
            => LET o == redeem_checks(resp.tok, now)
               IN  /\ o.res = resp.res
                   /\ o.msg = resp.msg
                   /\ o.stage = resp.stage)

\* a redeem failed at the existing-user check
C12_Witness ==
    /\ resp.op = "redeem" /\ resp.stage = "user" /\ resp.res = 409
    /\ invites[resp.inv].status = "pending"

\* C13: when send_tech_invitation returns false or raises during a
\* send_tech_invite_email request, the request is not aborted (it is not
\* answered with an error) and the invite record it prepared is persisted
\* with status pending.
C13_NotifyFailureKeepsInvite ==
    (resp.op = "send" /\ resp.stage = "email" /\ resp.msg = "email failure") =>
        /\ resp.res = 200
        /\ invites[resp.inv].status = "pending"

\* C14: list_tech_invites and cancel_tech_invite apply the tenant rule: the
\* rows a manager is shown, and the row a manager cancels, belong to the
\* manager's company, and a cancel of another company's invite is answered
\* 404; an admin is shown the pending invites of every company and is never
\* answered 404 for an invite that exists.
C14_TenantRule ==
    /\ (resp.op = "list" /\ resp.stage = "load" /\ resp.role = "manager") =>
          \A i \in resp.rows : invites[i].company_id = resp.co
    /\ (resp.op = "list" /\ resp.stage = "load" /\ resp.role = "admin") =>
          \A i \in InviteIds : invites[i].status = "pending" => i \in resp.rows
    /\ (/\ resp.op = "cancel" /\ resp.role = "manager" /\ resp.inv \in InviteIds
        /\ invites[resp.inv].company_id # resp.co) => resp.res = 404
    /\ (resp.op = "cancel" /\ resp.res = 200) =>
          invites[resp.inv].company_id = resp.co
    /\ (resp.op = "cancel" /\ resp.role = "admin" /\ resp.inv \in InviteIds) =>
          resp.res # 404

\* C15: a user who is not an admin never reads, updates or deletes by id a
\* job ticket whose company_id is not the user's own.
C15_JobTicketTenantRule ==
    (/\ resp.op \in {"get_job_ticket", "update_job_ticket", "delete_job_ticket"}
     /\ resp.role # "admin"
     /\ resp.res \in {200, 204}) => resp.snap = resp.co

\* C16 as stated: a correctly signed token is refused with the error
\* "Invite token has expired" whenever the current time is at or after its
\* exp claim.
C16_ExpiredAtOrAfterExp ==
    \A tok \in Presentable :
        (signature_ok(tok, secret_key) /\ now >= tok.exp) =>
            LET v == validate_invite_token(tok, now)
            IN  v.status = 401 /\ v.detail = "Invite token has expired"

\* C16 amended: a correctly signed token is refused with the error "Invite
\* token has expired" (401), and not with "Invalid or tampered invite
\* token", exactly when the current time is after its exp claim; at the
\* instant of exp it is not refused as expired.  The validate and redeem
\* endpoints answer a request with such a token accordingly.
C16_ExpiredAfterExp ==
    /\ \A tok \in Presentable :
          signature_ok(tok, secret_key) =>
              LET v == validate_invite_token(tok, now)
              IN  IF now > tok.exp
                  THEN v.status = 401 /\ v.detail = "Invite token has expired"
                  ELSE v.detail \notin {"Invite token has expired",
                                        "Invalid or tampered invite token"}
    /\ (/\ resp.op \in {"validate", "redeem"}
        /\ signature_ok(resp.tok, secret_key)) =>
          ((resp.stage = "token" /\ resp.res = 401
              /\ resp.msg = "Invite token has expired")
            <=> resp.tchk > resp.tok.exp)

\* the validate endpoint accepts a token at the instant of its exp claim
C16_Witness ==
    /\ resp.op = "validate" /\ resp.res = 200
    /\ resp.tchk = resp.tok.exp

\* C17: a correctly signed, unexpired token whose type is not tech_invite,
\* whose role is not tech or whose iss is not the invite issuer is refused
\* by validate_invite_token with 401 as an invalid token, and so is every
\* validate or redeem request that carries it.
C17_WrongTypeRoleIssuerIs401 ==
    /\ \A tok \in Presentable :
          (/\ signature_ok(tok, secret_key) /\ ~token_expired(tok, now)
           /\ (tok.type # "tech_invite" \/ tok.role # "tech"
                 \/ tok.iss # InviteIssuer)) =>
              validate_invite_token(tok, now).status = 401
    /\ (/\ resp.op \in {"validate", "redeem"}
        /\ signature_ok(resp.tok, secret_key) /\ ~token_expired(resp.tok, resp.tchk)
        /\ (resp.tok.type # "tech_invite" \/ resp.tok.role # "tech"
              \/ resp.tok.iss # InviteIssuer)) =>
          (resp.stage = "token" /\ resp.res = 401)

\* C18: a correctly signed, unexpired token that lacks one of the claims
\* invite_id, company_id, tech_name, email, role, type is refused by
\* validate_invite_token with 401 as an invalid token, and every validate or
\* redeem request that carries it is answered at the token stage, before the
\* invite lookup.
C18_MissingClaimIs401 ==
    /\ \A tok \in Presentable :
          (/\ signature_ok(tok, secret_key) /\ ~token_expired(tok, now)
           /\ (tok.invite_id = NoneId
                 \/ None \in {tok.company_id, tok.tech_name, tok.email,
                               tok.role, tok.type})) =>
              validate_invite_token(tok, now).status = 401
    /\ (/\ resp.op \in {"validate", "redeem"}
        /\ signature_ok(resp.tok, secret_key) /\ ~token_expired(resp.tok, resp.tchk)
        /\ (resp.tok.invite_id = NoneId
              \/ None \in {resp.tok.company_id, resp.tok.tech_name, resp.tok.email,
                            resp.tok.role, resp.tok.type})) =>
          (resp.stage = "token" /\ resp.res = 401)

\* C19: for every invite_id, company_id, tech_name and email, the token
\* generate_invite_token returns is accepted by validate_invite_token at
\* every time up to its expiry, and the payload returned has the four inputs
\* as its claims, role tech and type tech_invite; the endpoints never refuse
\* an issued token at the token stage before its expiry.
C19_GenerateThenValidate ==
    /\ \A id \in 1..MaxInvites, co \in Companies, n \in Names, e \in Emails,
          t \in 0..now :
          LET tok == generate_invite_token(id, co, n, e, t)
              v == validate_invite_token(tok, now)
          IN  now <= tok.exp =>
                /\ v.status = 200
                /\ v.payload.invite_id = id
                /\ v.payload.company_id = co
                /\ v.payload.tech_name = n
                /\ v.payload.email = e
                /\ v.payload.role = "tech"
                /\ v.payload.type = "tech_invite"
    /\ (resp.op = "create" /\ resp.res = 201) =>
          LET v == validate_invite_token(resp.tok, now)
          IN  /\ v.status = 200
              /\ v.payload.invite_id = resp.inv
              /\ v.payload.company_id = resp.co
              /\ v.payload.email = resp.email
    /\ (/\ resp.op \in {"validate", "redeem"} /\ resp.tok \in tokens
        /\ resp.tchk <= resp.tok.exp) => resp.stage # "token"

\* an issued token is accepted by the validate endpoint before its expiry
C19_Witness ==
    /\ resp.op = "validate" /\ resp.res = 200
    /\ resp.tok \in tokens
    /\ resp.tchk < resp.tok.exp

\* C20 as stated: every token obtained from an issued token by changing its
\* last character, by changing its payload and keeping the signature, or by
\* signing with another key is refused as invalid or tampered.
C20_AnyTamperIsInvalid ==
    \A b \in tokens : \A x \in Tampered(b) :
        LET v == validate_invite_token(x, now)
        IN  v.status = 401 /\ v.detail = "Invalid or tampered invite token"

\* C20 amended: a token obtained from an issued token by a change that
\* alters the decoded signature (a last character with other data bits,
\* another key) or the payload is refused with 401 as invalid or tampered,
\* never accepted and never reported expired; a last character that differs
\* only in its two padding bits decodes to the same signature, and the
\* token is treated as the issued one.
C20_TamperedSignatureIsInvalid ==
    /\ \A b \in tokens :
          /\ \A x \in PayloadChanged(b) \cup OtherKey(b) :
                LET v == validate_invite_token(x, now)
                IN  v.status = 401 /\ v.detail = "Invalid or tampered invite token"
          /\ \A x \in LastCharChanged(b) :
                LET v == validate_invite_token(x, now)
                IN  IF x.sig.tail \div 4 # b.sig.tail \div 4
                    THEN v.status = 401 /\ v.detail = "Invalid or tampered invite token"
                    ELSE /\ v.status = validate_invite_token(b, now).status
                         /\ v.detail = validate_invite_token(b, now).detail
    /\ (/\ resp.op \in {"validate", "redeem"}
        /\ \E b \in tokens :
              \/ resp.tok \in PayloadChanged(b) \cup OtherKey(b)
              \/ /\ resp.tok \in LastCharChanged(b)
                 /\ resp.tok.sig.tail \div 4 # b.sig.tail \div 4) =>
          /\ resp.stage = "token"
          /\ resp.res = 401
          /\ resp.msg = "Invalid or tampered invite token"

\* the validate endpoint accepts an issued token whose last character was
\* changed
C20_Witness ==
    /\ resp.op = "validate" /\ resp.res = 200
    /\ \E b \in tokens : resp.tok \in LastCharChanged(b)

\* C24: redeem_invite_token answers with the error of the first check that
\* fails, in the order token validation, invite lookup by (invite_id,
\* company_id) of the claims, validity of the invite, existing user: a token
\* that fails validation gets the error validate_invite_token raised,
\* whatever the tables hold; otherwise a missing record gives 404; otherwise
\* an invite that is not valid gives 410; otherwise an existing user with the
\* claimed email gives 409.
C24_FirstFailingCheckDecides ==
    (resp.op = "redeem" /\ resp.stage # "commit") =>
        LET v == validate_invite_token(resp.tok, resp.tchk)
            rows == {i \in InviteIds : /\ i = resp.tok.invite_id
                                       /\ invites[i].company_id = resp.tok.company_id}
        IN  IF v.status # 200
            THEN resp.stage = "token" /\ resp.res = v.status /\ resp.msg = v.detail
            ELSE IF rows = {}
            THEN resp.stage = "lookup" /\ resp.res = 404
            ELSE IF \E i \in rows : ~(/\ invites[i].status = "pending"
                                       /\ resp.tchk <= invites[i].expires_at)
            THEN resp.stage = "valid" /\ resp.res = 410
            ELSE IF \E u \in 1..Len(users) : users[u].email = resp.tok.email
            THEN resp.stage = "user" /\ resp.res = 409
            ELSE resp.stage = "company"

\* a redeem was answered 410 although a user with the claimed email exists:
\* the validity check came first
C24_Witness ==
    /\ resp.op = "redeem" /\ resp.res = 410
    /\ \E u \in 1..Len(users) : users[u].email = resp.tok.email

\* C25: a 410 of the redeem or of the validate endpoint names the actual
\* reason: the status accepted for an invite that was used, cancelled for one
\* that was cancelled, and expired only for an invite that is neither, also
\* when the expires_at of a used or cancelled invite has passed.
C25_GoneNamesReason ==
    (resp.op \in {"validate", "redeem"} /\ resp.res = 410) =>
        resp.msg = (IF resp.snap \in {"accepted", "cancelled"} THEN resp.snap
                    ELSE "expired")

\* C26: every reader treats a row with status pending whose expires_at has
\* passed as invalid: a create is refused for a pending invite only when that
\* invite is valid, validate and redeem answer 410 for such a row, and a token
\* handed out with a success response by create_tech_invite or
\* send_tech_invite_email belongs to a record that was not past its
\* expires_at when the request read it.
C26_StalePendingIsInvalid ==
    /\ (resp.op = "create" /\ resp.msg = "pending invite exists") =>
          is_valid(invites[resp.inv], resp.tchk)
    /\ (/\ resp.op \in {"validate", "redeem"} /\ resp.stage = "valid"
        /\ resp.tchk > invites[resp.inv].expires_at) => resp.res = 410
    /\ (/\ resp.op \in {"create", "send"} /\ resp.res \in {200, 201}
        /\ invites[resp.inv].status = "pending") =>
          resp.tchk <= invites[resp.inv].expires_at

\* C30: the validate endpoint reports a token as valid exactly when the
\* checks of redeem_invite_token, for the same token in the same state, pass
\* token validation, the invite lookup and the validity check (so that a
\* redeem could fail only at the existing-user or the company check); the
\* validate endpoint changes no row of tech_invites or users.
C30_ValidateAgreesWithRedeem ==
    /\ [](resp.op = "validate" =>
            ((resp.res = 200) <=>
                redeem_checks(resp.tok, now).stage \in {"pass", "user", "company"}))
    /\ [][resp'.op = "validate" => (invites' = invites /\ users' = users)]_vars

\* the validate endpoint reports a token as valid with which a redeem fails
\* at the existing-user check
C30_Witness ==
    /\ resp.op = "validate" /\ resp.res = 200
    /\ redeem_checks(resp.tok, now).stage = "user"

\* C27: no invite token issued by generate_invite_token is accepted as a
\* session credential by get_current_user or by verify_access_token, and no
\* access token issued by create_user_token, which get_current_user accepts
\* for its user while it is unexpired, is accepted by validate_invite_token
\* or gets past the token validation of the validate and redeem endpoints.
C27_NoTokenConfusion ==
    /\ \A tok \in tokens :
          /\ get_current_user(tok, now).status # 200
          /\ verify_access_token(tok, now).status # 200
    /\ \A id \in 1..Len(users) :
          /\ get_current_user(create_user_token(id, now), now).status = 200
          /\ get_current_user(create_user_token(id, now), now).user = id
          /\ verify_access_token(create_user_token(id, now), now).status = 200
    /\ \A a \in AccessTokens : validate_invite_token(a, now).status # 200
    /\ (resp.op \in {"validate", "redeem"} /\ resp.tok \in AccessTokens) =>
          (resp.stage = "token" /\ resp.res # 200)

\* an unexpired access token of a redeemed user was presented to the redeem
\* endpoint while an unexpired invite token is out
C27_Witness ==
    /\ resp.op = "redeem" /\ resp.tok \in AccessTokens
    /\ ~token_expired(resp.tok, resp.tchk)
    /\ \E tok \in tokens : ~token_expired(tok, now)

\* C21 as stated: decrypt_field(encrypt_field(x)) = x for every non-null
\* string x, and both functions return None for None.
C21_RoundTripEveryString ==
    /\ resp.op = "encrypt_field" /\ resp.arg.kind = "None"
            => resp.out = Returns(PyNone) /\ decrypt_field(PyNone) = Returns(PyNone)
    /\ resp.op = "encrypt_field" /\ resp.arg.kind = "str"
            => /\ resp.out.raised = ""
               /\ decrypt_field(resp.out.value) = Returns(resp.arg)
    /\ resp.op = "decrypt_field" /\ resp.how = "same" => resp.out = Returns(resp.plain)

\* C21 amended: decrypt_field(encrypt_field(x)) = x for every string x that
\* UTF-8 can encode, whatever the IV and the time of encryption; for a
\* string holding an unpaired surrogate encrypt_field raises
\* UnicodeEncodeError and returns no ciphertext; both functions return None
\* for None.
C21_RoundTripEncodableString ==
    /\ resp.op = "encrypt_field" /\ resp.arg.kind = "None"
            => resp.out = Returns(PyNone) /\ decrypt_field(PyNone) = Returns(PyNone)
    /\ resp.op = "encrypt_field" /\ resp.arg.kind = "str" /\ encodable(resp.arg.text)
            => /\ resp.out.raised = ""
               /\ resp.out.value.kind = "token"
               /\ decrypt_field(resp.out.value) = Returns(resp.arg)
    /\ resp.op = "encrypt_field" /\ resp.arg.kind = "str" /\ ~encodable(resp.arg.text)
            => resp.out = Raises("UnicodeEncodeError")
    /\ resp.op = "decrypt_field" /\ resp.how = "same" => resp.out = Returns(resp.plain)

C21_Witness ==
    /\ resp.op = "decrypt_field" /\ resp.how = "same"
    /\ resp.plain = Text(<<233, 8364>>)
    /\ resp.arg.kind = "token"
    /\ resp.out = Returns(Text(<<233, 8364>>))

\* C22 as stated: decrypt_field applied to a ciphertext written under
\* another key, to a malformed ciphertext or to a modified ciphertext raises;
\* it returns neither None nor any plaintext.
C22_EveryChangedTextRaises ==
    resp.op = "decrypt_field" /\ resp.how \in {"other key", "malformed", "modified", "respelled"}
        => resp.out.raised # ""

\* C22 amended: decrypt_field raises, and returns nothing, for a ciphertext
\* written under another key, for a string that is not the text of a token
\* and for a text whose token bytes (version, timestamp, IV, ciphertext,
\* MAC) differ from those encrypt_field produced; a text that differs from
\* the one encrypt_field returned only in the spare bits of its last base64
\* character holds the same token and decrypts to the original plaintext,
\* never to None or to another plaintext.
C22_ChangedTokenRaises ==
    /\ resp.op = "decrypt_field" /\ resp.how \in {"other key", "malformed", "modified"}
            => resp.out.raised \in {"InvalidToken", "UnicodeEncodeError"}
               /\ resp.out.value = PyNone
    /\ resp.op = "decrypt_field" /\ resp.how = "respelled"
            => resp.arg # encrypt_field(resp.plain, resp.arg.tok.iv, resp.arg.tok.ts).value
               /\ resp.out = Returns(resp.plain)

C22_Witness ==
    /\ resp.op = "decrypt_field" /\ resp.how = "modified"
    /\ resp.arg.tok.ct.data = pad(<<98>>)
    /\ resp.plain = Text(<<97>>)
    /\ resp.out = Raises("InvalidToken")

\* C23 as stated: the ticket numbers generate_ticket_number returns are
\* pairwise distinct also when it is called concurrently: two requests that
\* both hold a returned number hold different numbers.
C23_ConcurrentNumbersDistinct ==
    \A s \in Sessions, o \in Sessions :
        (s # o /\ req[s].op = "generated" /\ req[o].op = "generated")
            => req[s].ticket_number # req[o].ticket_number

\* some number of the call's year is on no row
unused_number(s) ==
    \E n \in RandomDraws : ticket_number_of(req[s].current_year, n) \notin ticket_numbers

C29_AtReturn ==
    \A s \in Sessions :
        /\ req[s].op = "generate" => req[s].lookups = req[s].collisions
        /\ req[s].op = "generated" =>
              /\ req[s].lookups = req[s].collisions + 1
              /\ req[s].absent
              /\ Len(req[s].ticket_number) = 8
              /\ \A i \in 1..8 : req[s].ticket_number[i] \in 0..9
              /\ \E year \in Years, n \in RandomDraws :
                    /\ SubSeq(req[s].ticket_number, 1, 2)
                          = <<(year \div 10) % 10, year % 10>>
                    /\ n = 100000 * req[s].ticket_number[3] + 10000 * req[s].ticket_number[4]
                           + 1000 * req[s].ticket_number[5] + 100 * req[s].ticket_number[6]
                           + 10 * req[s].ticket_number[7] + req[s].ticket_number[8]

\* C29: generate_ticket_number retries on every collision, also after the
\* ten attempts of its first loop: a call that met k collisions made k + 1
\* lookups, and its result is the two-digit year followed by the draw padded
\* to six digits, eight characters that were on no row at the last lookup;
\* and a call in progress returns whenever a number of its year is unused.
C29_RetriesAndTerminates ==
    /\ []C29_AtReturn
    /\ \A s \in Sessions :
          (req[s].op = "generate" /\ unused_number(s))
              ~> (req[s].op = "generated" \/ ~unused_number(s))

C29_Witness ==
    /\ req["s1"].op = "generated"
    /\ req["s1"].collisions > max_attempts
    /\ req["s1"].lookups = req["s1"].collisions + 1
    /\ req["s1"].ticket_number = <<0, 9, 0, 0, 0, 0, 0, 7>>
    /\ req["s1"].ticket_number \notin ticket_numbers

====
